---------------------------- MODULE Spec2Model ----------------------------
(***************************************************************************)
(* Presence simulator (relay_presenca_aleatoria, millis-based sketch).     *)
(*                                                                         *)
(* One cooperative loop() polls millis() and runs three due-checks in a    *)
(* fixed order: heartbeat LED, relay (actuator), potentiometer telemetry.  *)
(*                                                                         *)
(* Representation of `unsigned long` (32 bits on the target boards): TLC   *)
(* integers are 32-bit signed, so a clock value is held as the signed      *)
(* integer that has the same 32-bit pattern (u < 2^31 is held as u, and    *)
(* u >= 2^31 as u - 2^32).  AddUL and SubUL are the wrapping + and - of    *)
(* the C code on that representation; the cast (long) of the due-check is  *)
(* then the value itself.                                                  *)
(***************************************************************************)
EXTENDS Integers, Sequences, FiniteSets, TLC

VARIABLES
    pc,                     \* position: "boot", "loop", "hb", "relay", "pot"
    millis,                 \* hardware millisecond counter (unsigned long)
    agora,                  \* loop()'s local sample of millis()
    relayLigado,            \* bool relayLigado
    proximaTrocaMs,         \* unsigned long proximaTrocaMs
    hbOn,                   \* bool hbOn
    hbProximaTrocaMs,       \* unsigned long hbProximaTrocaMs
    potProximaImpressaoMs,  \* unsigned long potProximaImpressaoMs
    relayPin,               \* level last written to RELAY_PIN
    ledRelePin,             \* level last written to LED_RELE_PIN
    hbPin,                  \* level last written to HEARTBEAT_LED_PIN
    agendaLog,              \* last line printed by agendaProximoIntervalo
    potLog,                 \* last telemetry line printed by loop()
    iter,                   \* history: number of loop() iterations started
    trocas,                 \* history: number of relay firings
    hbDesde,                \* history: real ms between the sample of the last
                            \*   heartbeat firing (or setup) and agora
    potDesde,               \* history: same, for the telemetry task
    desdeAgora,             \* history: real ms the clock ran since agora was sampled
    hbGap,                  \* history: hbDesde at the last heartbeat firing, -1 if none
    potGap,                 \* history: potDesde at the last telemetry firing, -1 if none
    releDesde,              \* history: real ms between the sample of the last relay
                            \*   firing (or setup) and agora
    disparos,               \* history: the tasks that fired in the current iteration
    entrada,                \* input of the pure function under check
    saida                   \* its result

vars == <<pc, millis, agora, relayLigado, proximaTrocaMs, hbOn, hbProximaTrocaMs,
          potProximaImpressaoMs, relayPin, ledRelePin, hbPin, agendaLog, potLog,
          iter, trocas, hbDesde, potDesde, desdeAgora, hbGap, potGap,
          releDesde, disparos, entrada, saida>>

----------------------------------------------------------------------------
(* Bounds of the model *)

\* loop() iterations explored
MaxIter == 4
\* raw outputs of the pseudo-random generator explored: 0..MaxRand
MaxRand == 17
\* readings compared by the range mapper checks are at most MaxPasso apart
MaxPasso == 2
\* raw analog samples explored reach MaxFora below 0 and above POT_ADC_MAX
MaxFora == 2
\* clock values explored around each boundary of the 32-bit counter: 0..MaxJanela
MaxJanela == 3

----------------------------------------------------------------------------
(* Program constants *)

LONG_MAX == 2147483647
LONG_MIN == -LONG_MAX - 1

POT_ADC_MAX == 1023
hbPeriodoMs == 500
potPrintPeriodoMs == 1000

RELAY_ATIVO_EM_LOW == TRUE
LED_RELE_ATIVO_EM_HIGH == TRUE
HB_LED_ATIVO_EM_HIGH == TRUE

----------------------------------------------------------------------------
(* 32-bit unsigned arithmetic on the signed representation *)

\* a + b modulo 2^32
AddUL(a, b) ==
    IF a >= 0 /\ b > LONG_MAX - a
        THEN (a - LONG_MAX - 1) + (b - LONG_MAX - 1)
    ELSE IF a < 0 /\ b < LONG_MIN - a
        THEN (a + LONG_MAX + 1) + (b + LONG_MAX + 1)
    ELSE a + b

\* a - b modulo 2^32
SubUL(a, b) ==
    IF b < 0 /\ a > LONG_MAX + b
        THEN (a - LONG_MAX - 1) - (b + LONG_MAX + 1)
    ELSE IF b > 0 /\ a < LONG_MIN + b
        THEN (a + LONG_MAX + 1) - (b - LONG_MAX - 1)
    ELSE a - b

\* a < b as unsigned values
LessUL(a, b) ==
    IF (a >= 0) = (b >= 0) THEN a < b ELSE a >= 0

\* The factor is that of seconds.
MINUTOSsegundos(x) == x * 1000

\* MINUTOS(x) ((unsigned long)(x) * 60000UL), for x in 0..255
MINUTOS(x) == x * 60000

\* The due-check compares the clock with the deadline directly.
DueNaive(now, deadline) == ~LessUL(now, deadline)

\* The due-check misses the millisecond of the deadline itself.
DueEstrito(now, deadline) == SubUL(now, deadline) > 0

\* (long)(agora - deadline) >= 0
Due(now, deadline) == SubUL(now, deadline) >= 0

\* The next deadline is counted from the deadline that expired.
proximoPrazoAcumulado(agoraV, prazo, periodo) == AddUL(prazo, periodo)

\* The period is doubled while the relay is OFF.
proximoPrazoConformeRele(agoraV, prazo, periodo) ==
    AddUL(agoraV, IF relayLigado THEN periodo ELSE 2 * periodo)

\* the deadline a periodic task stores when it fires at agoraV, its expired
\* deadline being prazo: agora + periodo
proximoPrazo(agoraV, prazo, periodo) == AddUL(agoraV, periodo)

\* history counters are real (unwrapped) milliseconds, saturating at LONG_MAX
SatAdd(a, b) == IF a > LONG_MAX - b THEN LONG_MAX ELSE a + b

----------------------------------------------------------------------------
(* Pin writes *)

\* escreveRelay: level written to RELAY_PIN
escreveRelayPin(ligar) ==
    IF ligar THEN (IF RELAY_ATIVO_EM_LOW THEN "LOW" ELSE "HIGH")
             ELSE (IF RELAY_ATIVO_EM_LOW THEN "HIGH" ELSE "LOW")

\* The state LED is driven with the polarity of the relay.
escreveRelayLedInvertido(ligar) == escreveRelayPin(ligar)

\* escreveRelay: level written to LED_RELE_PIN
escreveRelayLed(ligar) ==
    IF ligar THEN (IF LED_RELE_ATIVO_EM_HIGH THEN "HIGH" ELSE "LOW")
             ELSE (IF LED_RELE_ATIVO_EM_HIGH THEN "LOW" ELSE "HIGH")

\* escreveHeartbeat: level written to HEARTBEAT_LED_PIN
escreveHeartbeat(ligar) ==
    IF ligar THEN (IF HB_LED_ATIVO_EM_HIGH THEN "HIGH" ELSE "LOW")
             ELSE (IF HB_LED_ATIVO_EM_HIGH THEN "LOW" ELSE "HIGH")

----------------------------------------------------------------------------
(* Sensor reading, range mapping, random draw *)

\* C integer division (truncates toward zero)
CDiv(a, b) ==
    IF (a >= 0) = (b > 0) THEN (IF a >= 0 THEN a ELSE -a) \div (IF b > 0 THEN b ELSE -b)
    ELSE -((IF a >= 0 THEN a ELSE -a) \div (IF b > 0 THEN b ELSE -b))

\* The input range is walked from its upper end.
mapInvertido(x, in_min, in_max, out_min, out_max) ==
    CDiv((in_max - x) * (out_max - out_min), in_max - in_min) + out_min

\* Arduino map(): (x - in_min) * (out_max - out_min) / (in_max - in_min) + out_min
map(x, in_min, in_max, out_min, out_max) ==
    CDiv((x - in_min) * (out_max - out_min), in_max - in_min) + out_min

\* Arduino constrain(x, lo, hi)
constrain(x, lo, hi) == IF x < lo THEN lo ELSE IF x > hi THEN hi ELSE x

\* (uint8_t) v
U8(v) == v % 256

\* The raw sample is returned as read.
lerPotSemLimite(raw) == raw

\* lerPotRaw, on the raw sample analogRead returned
lerPotRaw(raw) == constrain(raw, 0, POT_ADC_MAX)

\* The full scale is taken as POT_ADC_MAX + 1.
faixaEscala1024(leitura) ==
    LET minCalc == U8(map(leitura, 0, POT_ADC_MAX + 1, 1, 10))
        maxCalc == U8(map(leitura, 0, POT_ADC_MAX + 1, 8, 25))
    IN  <<minCalc, IF maxCalc < minCalc THEN minCalc ELSE maxCalc>>

\* The two output ranges are exchanged.
faixaCalcTrocada(leitura) ==
    <<U8(map(leitura, 0, POT_ADC_MAX, 8, 25)), U8(map(leitura, 0, POT_ADC_MAX, 1, 10))>>

\* faixaPorLeitura, lines 83-84: <<minCalc, maxCalc>>, before the correction
faixaCalc(leitura) ==
    <<U8(map(leitura, 0, POT_ADC_MAX, 1, 10)), U8(map(leitura, 0, POT_ADC_MAX, 8, 25))>>

\* faixaPorLeitura: <<minMin, maxMax>>
faixaPorLeitura(leitura) ==
    LET minCalc == faixaCalc(leitura)[1]
        maxCalc == faixaCalc(leitura)[2]
    IN  <<minCalc, IF maxCalc < minCalc THEN minCalc ELSE maxCalc>>

\* Arduino random(howsmall, howbig), r being the generator's raw output
random(howsmall, howbig, r) ==
    IF howsmall >= howbig THEN howsmall
    ELSE (r % (howbig - howsmall)) + howsmall


\* The arguments of random() are exchanged.
sorteiaTrocado(minMin, maxMax, r) == random(maxMax + 1, minMin, r)

\* agendaProximoIntervalo, line 101: random((long)minMin, (long)maxMax + 1)
sorteiaMinutos(minMin, maxMax, r) == random(minMin, maxMax + 1, r)

\* agendaProximoIntervalo, lines 98-101: the reading sampled, the range mapped
\* from it and the minutes drawn, for raw sample `raw` and generator output `r`
escolheMinutos(raw, r) ==
    LET leitura == lerPotRaw(raw)
        faixa   == faixaPorLeitura(leitura)
    IN  [leitura |-> leitura, minMin |-> faixa[1], maxMax |-> faixa[2],
         minutos |-> sorteiaMinutos(faixa[1], faixa[2], r)]

\* telemetry line of loop(): reading, percentage and mapped range
linhaTelemetria(raw) ==
    LET leitura == lerPotRaw(raw)
        faixa   == faixaPorLeitura(leitura)
    IN  [leitura |-> leitura, perc |-> CDiv(leitura * 100, POT_ADC_MAX),
         minMin |-> faixa[1], maxMax |-> faixa[2]]

----------------------------------------------------------------------------
(* Inputs explored *)

\* raw analogRead samples, in and out of the ADC range
RawSamples == {-1, 511, POT_ADC_MAX + 1}
\* raw generator outputs drawn in the loop
RandSamples == {0, MaxRand}
\* milliseconds the clock runs between two loop() iterations
LoopDeltas == {0, 499, 500, 501, 60000, LONG_MAX - 60}
\* milliseconds the clock runs inside setup()/loop() before agendaProximoIntervalo
\* reads millis() again
InnerDeltas == {0, 60}
\* delay(50) in setup()
SetupDelay == 50

NoAgenda == [leitura |-> 0, minMin |-> 0, maxMax |-> 0, minutos |-> 0, proximo |-> FALSE]
NoTelemetria == [leitura |-> 0, perc |-> 0, minMin |-> 0, maxMax |-> 0]

----------------------------------------------------------------------------
(* The sketch *)

\* State after the global initialisers (lines 45-55), before setup()
Globais ==
    /\ millis = 0
    /\ agora = 0
    /\ relayLigado = FALSE
    /\ proximaTrocaMs = 0
    /\ hbOn = FALSE
    /\ hbProximaTrocaMs = 0
    /\ potProximaImpressaoMs = 0
    /\ relayPin = "LOW"
    /\ ledRelePin = "LOW"
    /\ hbPin = "LOW"
    /\ agendaLog = NoAgenda
    /\ potLog = NoTelemetria
    /\ iter = 0
    /\ trocas = 0
    /\ hbDesde = 0
    /\ potDesde = 0
    /\ desdeAgora = 0
    /\ hbGap = -1
    /\ potGap = -1
    /\ releDesde = 0
    /\ disparos = {}

Init ==
    /\ pc = "boot"
    /\ Globais
    /\ entrada = <<>>
    /\ saida = <<>>

\* The interval is counted from the deadline that expired.
agendaAcumulada(proximoEstadoLigado, raw, r, relogio) ==
    LET e == escolheMinutos(raw, r)
    IN  /\ millis' = relogio
        /\ proximaTrocaMs' = AddUL(proximaTrocaMs, MINUTOS(e.minutos))
        /\ agendaLog' = [leitura |-> e.leitura, minMin |-> e.minMin,
                         maxMax |-> e.maxMax, minutos |-> e.minutos,
                         proximo |-> proximoEstadoLigado]

\* agendaProximoIntervalo(proximoEstadoLigado), the clock standing at `relogio`
\* when the function reads millis()
agendaProximoIntervalo(proximoEstadoLigado, raw, r, relogio) ==
    LET e == escolheMinutos(raw, r)
    IN  /\ millis' = relogio
        /\ proximaTrocaMs' = AddUL(relogio, MINUTOS(e.minutos))
        /\ agendaLog' = [leitura |-> e.leitura, minMin |-> e.minMin,
                         maxMax |-> e.maxMax, minutos |-> e.minutos,
                         proximo |-> proximoEstadoLigado]

\* setup() starts with the relay on.
estadoInicialLigado == TRUE

\* relay state written by setup()
estadoInicial == FALSE

\* setup(); the sensor reads one of Raws, the generator gives one of Rands, and
\* the clock runs for one of Inner before agendaProximoIntervalo reads it
setupEm(Raws, Rands, Inner) ==
    /\ pc = "boot"
    /\ \E raw \in Raws, r \in Rands, d \in Inner :
         LET agoraSetup == AddUL(millis, SetupDelay)
         IN  /\ relayLigado' = estadoInicial
             /\ relayPin' = escreveRelayPin(relayLigado')
             /\ ledRelePin' = escreveRelayLed(relayLigado')
             /\ hbOn' = FALSE
             /\ hbPin' = escreveHeartbeat(hbOn')
             /\ agora' = agoraSetup
             /\ hbProximaTrocaMs' = AddUL(agoraSetup, hbPeriodoMs)
             /\ potProximaImpressaoMs' = AddUL(agoraSetup, potPrintPeriodoMs)
             /\ agendaProximoIntervalo(TRUE, raw, r, AddUL(agoraSetup, d))
             /\ desdeAgora' = d
    /\ hbDesde' = 0
    /\ potDesde' = 0
    /\ releDesde' = 0
    /\ disparos' = {}
    /\ pc' = "loop"
    /\ UNCHANGED <<potLog, iter, trocas, hbGap, potGap, entrada, saida>>

\* setup(), in the runs of bounded length
setup == setupEm(RawSamples, RandSamples, InnerDeltas)

\* loop(), line 155: unsigned long agora = millis(); the clock has run for one
\* of Deltas since the last iteration, and the iterations are counted, up to
\* MaxIter, if conta
loopInicioEm(Deltas, conta) ==
    /\ pc = "loop"
    /\ conta => iter < MaxIter
    /\ \E d \in Deltas :
         /\ d <= LONG_MAX - desdeAgora   \* iterations are less than half a wrap apart
         /\ millis' = AddUL(millis, d)
         /\ agora' = millis'
         /\ hbDesde' = SatAdd(hbDesde, desdeAgora + d)
         /\ potDesde' = SatAdd(potDesde, desdeAgora + d)
         /\ releDesde' = SatAdd(releDesde, desdeAgora + d)
    /\ desdeAgora' = 0
    /\ iter' = IF conta THEN iter + 1 ELSE iter
    /\ disparos' = {}
    /\ pc' = "hb"
    /\ UNCHANGED <<relayLigado, proximaTrocaMs, hbOn, hbProximaTrocaMs,
                   potProximaImpressaoMs, relayPin, ledRelePin, hbPin, agendaLog,
                   potLog, trocas, hbGap, potGap, entrada, saida>>

\* loop(), line 155, in the runs of bounded length
loopInicio == loopInicioEm(LoopDeltas, TRUE)

\* The flag is written back unchanged.
mantem(b) == b

\* the new value of a toggled flag (hbOn = !hbOn; relayLigado = !relayLigado)
inverte(b) == ~b

\* loop(), lines 158-162, heartbeat due
heartbeatDispara ==
    /\ pc = "hb"
    /\ Due(agora, hbProximaTrocaMs)
    /\ hbOn' = inverte(hbOn)
    /\ hbPin' = escreveHeartbeat(hbOn')
    /\ hbProximaTrocaMs' = proximoPrazo(agora, hbProximaTrocaMs, hbPeriodoMs)
    /\ hbGap' = hbDesde
    /\ hbDesde' = 0
    /\ disparos' = disparos \cup {"hb"}
    /\ pc' = "relay"
    /\ UNCHANGED <<millis, agora, relayLigado, proximaTrocaMs, potProximaImpressaoMs,
                   relayPin, ledRelePin, agendaLog, potLog, iter, trocas, potDesde,
                   desdeAgora, potGap, releDesde, entrada, saida>>

\* loop(), line 158, heartbeat not due
heartbeatPula ==
    /\ pc = "hb"
    /\ ~Due(agora, hbProximaTrocaMs)
    /\ pc' = "relay"
    /\ UNCHANGED <<millis, agora, relayLigado, proximaTrocaMs, hbOn, hbProximaTrocaMs,
                   potProximaImpressaoMs, relayPin, ledRelePin, hbPin, agendaLog,
                   potLog, iter, trocas, hbDesde, potDesde, desdeAgora, hbGap, potGap,
                   releDesde,
                   disparos, entrada, saida>>

\* The state just applied is announced as the next one.
proximoEstadoAtual(ligado) == ligado

\* loop(), line 168: the argument !relayLigado of agendaProximoIntervalo
proximoEstado(ligado) == ~ligado

\* loop(), lines 165-169, relay due; the sensor reads one of Raws, the generator
\* gives one of Rands, the clock runs for one of Inner before it is read
\* again, and the firings are counted if conta
releDisparaEm(Raws, Rands, Inner, conta) ==
    /\ pc = "relay"
    /\ Due(agora, proximaTrocaMs)
    /\ relayLigado' = inverte(relayLigado)
    /\ relayPin' = escreveRelayPin(relayLigado')
    /\ ledRelePin' = escreveRelayLed(relayLigado')
    /\ \E raw \in Raws, r \in Rands, d \in Inner :
         /\ agendaProximoIntervalo(proximoEstado(relayLigado'), raw, r, AddUL(millis, d))
         /\ desdeAgora' = SatAdd(desdeAgora, d)
    /\ trocas' = IF conta THEN trocas + 1 ELSE trocas
    /\ releDesde' = 0
    /\ disparos' = disparos \cup {"rele"}
    /\ pc' = "pot"
    /\ UNCHANGED <<agora, hbOn, hbProximaTrocaMs, potProximaImpressaoMs, hbPin,
                   potLog, iter, hbDesde, potDesde, hbGap, potGap, entrada, saida>>

\* loop(), lines 165-169, in the runs of bounded length
releDispara == releDisparaEm(RawSamples, RandSamples, InnerDeltas, TRUE)

\* loop(), line 165, relay not due
relePula ==
    /\ pc = "relay"
    /\ ~Due(agora, proximaTrocaMs)
    /\ pc' = "pot"
    /\ UNCHANGED <<millis, agora, relayLigado, proximaTrocaMs, hbOn, hbProximaTrocaMs,
                   potProximaImpressaoMs, relayPin, ledRelePin, hbPin, agendaLog,
                   potLog, iter, trocas, hbDesde, potDesde, desdeAgora, hbGap, potGap,
                   releDesde,
                   disparos, entrada, saida>>

\* The telemetry also stores the relay deadline from the range it computed.
telemetriaReagendaRele ==
    /\ pc = "pot"
    /\ Due(agora, potProximaImpressaoMs)
    /\ \E raw \in RawSamples : potLog' = linhaTelemetria(raw)
    /\ potProximaImpressaoMs' = proximoPrazo(agora, potProximaImpressaoMs, potPrintPeriodoMs)
    /\ proximaTrocaMs' = AddUL(agora, MINUTOS(potLog'.minMin))
    /\ potGap' = potDesde
    /\ potDesde' = 0
    /\ disparos' = disparos \cup {"pot"}
    /\ pc' = "loop"
    /\ UNCHANGED <<millis, agora, relayLigado, hbOn, hbProximaTrocaMs,
                   relayPin, ledRelePin, hbPin, agendaLog, iter, trocas, hbDesde,
                   desdeAgora, hbGap, releDesde, entrada, saida>>

\* The telemetry reschedules from the clock as it stands, not from agora.
telemetriaRelogio ==
    /\ pc = "pot"
    /\ Due(agora, potProximaImpressaoMs)
    /\ \E raw \in RawSamples : potLog' = linhaTelemetria(raw)
    /\ potProximaImpressaoMs' = proximoPrazo(millis, potProximaImpressaoMs, potPrintPeriodoMs)
    /\ potGap' = potDesde
    /\ potDesde' = 0
    /\ disparos' = disparos \cup {"pot"}
    /\ pc' = "loop"
    /\ UNCHANGED <<millis, agora, relayLigado, proximaTrocaMs, hbOn, hbProximaTrocaMs,
                   relayPin, ledRelePin, hbPin, agendaLog, iter, trocas, hbDesde,
                   desdeAgora, hbGap, releDesde, entrada, saida>>

\* loop(), lines 172-188, telemetry due; the sensor reads one of Raws
telemetriaDisparaEm(Raws) ==
    /\ pc = "pot"
    /\ Due(agora, potProximaImpressaoMs)
    /\ \E raw \in Raws : potLog' = linhaTelemetria(raw)
    /\ potProximaImpressaoMs' = proximoPrazo(agora, potProximaImpressaoMs, potPrintPeriodoMs)
    /\ potGap' = potDesde
    /\ potDesde' = 0
    /\ disparos' = disparos \cup {"pot"}
    /\ pc' = "loop"
    /\ UNCHANGED <<millis, agora, relayLigado, proximaTrocaMs, hbOn, hbProximaTrocaMs,
                   relayPin, ledRelePin, hbPin, agendaLog, iter, trocas, hbDesde,
                   desdeAgora, hbGap, releDesde, entrada, saida>>

\* loop(), lines 172-188, in the runs of bounded length
telemetriaDispara == telemetriaDisparaEm(RawSamples)

\* loop(), line 172, telemetry not due
telemetriaPula ==
    /\ pc = "pot"
    /\ ~Due(agora, potProximaImpressaoMs)
    /\ pc' = "loop"
    /\ UNCHANGED <<millis, agora, relayLigado, proximaTrocaMs, hbOn, hbProximaTrocaMs,
                   potProximaImpressaoMs, relayPin, ledRelePin, hbPin, agendaLog,
                   potLog, iter, trocas, hbDesde, potDesde, desdeAgora, hbGap, potGap,
                   releDesde,
                   disparos, entrada, saida>>

Next ==
    \/ setup
    \/ loopInicio
    \/ heartbeatDispara
    \/ heartbeatPula
    \/ releDispara
    \/ relePula
    \/ telemetriaDispara
    \/ telemetriaPula

Spec == Init /\ [][Next]_vars

----------------------------------------------------------------------------
(* The sketch running without end *)

\* milliseconds between two iterations: none, or about 17.5 minutes, a divisor
\* of the clock's period, so that the clock returns to the values it had
DeltasVivo == {0, 2^20}
\* a reading at the top of the scale: 10 to 25 minutes
RawVivo == {POT_ADC_MAX}
\* the generator output that gives the longest of these intervals, 25 minutes:
\* the relay is not due at the iteration that follows a firing
RandVivo == {15}
\* the clock does not move between the sample and agendaProximoIntervalo
InnerVivo == {0}

\* setup(), in the runs without end
setupVivo == setupEm(RawVivo, RandVivo, InnerVivo)

\* loop(), line 155, iterated without end
loopInicioVivo == loopInicioEm(DeltasVivo, FALSE)

\* loop(), line 155, reached after the clock has advanced
loopInicioAvanca == loopInicioEm(DeltasVivo \ {0}, FALSE)

\* loop(), lines 172-188, in the runs without end
telemetriaDisparaVivo == telemetriaDisparaEm(RawVivo)

\* loop(), lines 165-169, in the runs without end
releDisparaVivo == releDisparaEm(RawVivo, RandVivo, InnerVivo, FALSE)

NextVivo ==
    \/ setupVivo
    \/ loopInicioVivo
    \/ heartbeatDispara
    \/ heartbeatPula
    \/ releDisparaVivo
    \/ relePula
    \/ telemetriaDisparaVivo
    \/ telemetriaPula

\* loop() is called again and again and each statement it reaches is executed,
\* and the clock advances between iterations again and again
SpecVivo ==
    /\ Init
    /\ [][NextVivo]_vars
    /\ WF_vars(NextVivo)
    /\ SF_vars(loopInicioAvanca)

----------------------------------------------------------------------------
(* Two runs of the sketch on the same clock samples *)

\* milliseconds between two iterations of the first run
DeltasPar == {0, 500, 60000}
\* readings at the two ends of the scale: 1 to 8 minutes, 10 to 25 minutes
RawPar == {0, POT_ADC_MAX}
\* the generator output that gives the shortest interval of a range
RandPar == {0}

\* the state of the run in progress
estadoDaRodada ==
    [pc |-> pc, millis |-> millis, agora |-> agora, relayLigado |-> relayLigado,
     proximaTrocaMs |-> proximaTrocaMs, hbOn |-> hbOn,
     hbProximaTrocaMs |-> hbProximaTrocaMs,
     potProximaImpressaoMs |-> potProximaImpressaoMs, relayPin |-> relayPin,
     ledRelePin |-> ledRelePin, hbPin |-> hbPin, agendaLog |-> agendaLog,
     potLog |-> potLog, iter |-> iter, trocas |-> trocas, hbDesde |-> hbDesde,
     potDesde |-> potDesde, desdeAgora |-> desdeAgora, hbGap |-> hbGap,
     potGap |-> potGap, releDesde |-> releDesde, disparos |-> disparos]

\* both runs before setup(): the first in progress, the second set aside in saida
InitPar ==
    /\ pc = "boot"
    /\ Globais
    /\ entrada = <<"rodada", 1>>
    /\ saida = estadoDaRodada

\* the run in progress has done its setup() or its iteration and the other has
\* not yet
vezDaOutra ==
    /\ pc = "loop"
    /\ \/ entrada[2] = 1 /\ (saida.pc = "boot" \/ saida.iter < iter)
       \/ entrada[2] = 2 /\ saida.iter = iter

\* the run in progress is set aside and the other one is resumed
trocaRodada ==
    /\ vezDaOutra
    /\ entrada' = <<"rodada", 3 - entrada[2]>>
    /\ saida' = estadoDaRodada
    /\ pc' = saida.pc
    /\ millis' = saida.millis
    /\ agora' = saida.agora
    /\ relayLigado' = saida.relayLigado
    /\ proximaTrocaMs' = saida.proximaTrocaMs
    /\ hbOn' = saida.hbOn
    /\ hbProximaTrocaMs' = saida.hbProximaTrocaMs
    /\ potProximaImpressaoMs' = saida.potProximaImpressaoMs
    /\ relayPin' = saida.relayPin
    /\ ledRelePin' = saida.ledRelePin
    /\ hbPin' = saida.hbPin
    /\ agendaLog' = saida.agendaLog
    /\ potLog' = saida.potLog
    /\ iter' = saida.iter
    /\ trocas' = saida.trocas
    /\ hbDesde' = saida.hbDesde
    /\ potDesde' = saida.potDesde
    /\ desdeAgora' = saida.desdeAgora
    /\ hbGap' = saida.hbGap
    /\ potGap' = saida.potGap
    /\ releDesde' = saida.releDesde
    /\ disparos' = saida.disparos

\* setup() of either run
setupPar == setupEm(RawPar, RandPar, InnerDeltas)

\* loop(), line 155: the first run samples the clock
loopInicioPrimeira ==
    /\ entrada[2] = 1
    /\ ~vezDaOutra
    /\ loopInicioEm(DeltasPar, TRUE)

\* loop(), line 155: the second run samples the clock at the value the first
\* run sampled, if its own clock has not passed it
loopInicioSegunda ==
    /\ entrada[2] = 2
    /\ ~vezDaOutra
    /\ loopInicioEm({d \in {SubUL(saida.agora, millis)} : d >= 0}, TRUE)

\* loop(), lines 165-169, of either run
releDisparaPar == releDisparaEm(RawPar, RandPar, InnerDeltas, TRUE)

\* loop(), lines 172-188, of either run
telemetriaDisparaPar == telemetriaDisparaEm(RawPar)

NextPar ==
    \/ setupPar
    \/ loopInicioPrimeira
    \/ loopInicioSegunda
    \/ heartbeatDispara
    \/ heartbeatPula
    \/ releDisparaPar
    \/ relePula
    \/ telemetriaDisparaPar
    \/ telemetriaPula
    \/ trocaRodada

SpecPar == InitPar /\ [][NextPar]_vars

----------------------------------------------------------------------------
(* The pure functions of the sketch, applied to enumerated inputs *)

progVars == <<millis, agora, relayLigado, proximaTrocaMs, hbOn, hbProximaTrocaMs,
              potProximaImpressaoMs, relayPin, ledRelePin, hbPin, agendaLog, potLog,
              iter, trocas, hbDesde, potDesde, desdeAgora, hbGap, potGap,
              releDesde, disparos>>

\* pairs of in-range readings a <= b
ParesDeLeituras ==
    UNION {{<<"faixa", a, b>> :
               b \in ({a + k : k \in 0..MaxPasso} \cup {POT_ADC_MAX}) \cap (0..POT_ADC_MAX)} :
           a \in 0..POT_ADC_MAX}

\* clock values around 0, the heartbeat period, 2^31 and the wrap at 2^32
Relogios ==
    {AddUL(b, k) : b \in {0, 499, LONG_MAX - 1, -501, -2}, k \in 0..MaxJanela}

\* real elapsed milliseconds from the deadline to now (negative: now is
\* before the deadline), of magnitude below half the wrap period 2^31
Decorridos ==
    LET mags == (0..MaxJanela) \cup {499, 500, 60000, 1500000}
                  \cup {LONG_MAX - k : k \in 0..MaxJanela}
    IN  mags \cup {-m : m \in mags}

ParesDeRelogio == {<<"due", dl, e>> : dl \in Relogios, e \in Decorridos}

\* raw analog samples (an int of 16 bits on the smallest boards) and generator outputs
Sorteios ==
    {<<"escolhe", raw, r>> :
        raw \in ((-MaxFora)..(POT_ADC_MAX + MaxFora)) \cup {-32768, 32767},
        r \in 0..MaxRand}

\* ranges low <= high of whole minutes and generator outputs
Faixas ==
    {<<"sorteia", f, r>> :
        f \in {g \in (1..25) \X (1..25) : g[1] <= g[2]},
        r \in (0..MaxRand) \cup {LONG_MAX}}

\* in-range readings, for the interpolations before the correction
Leituras == {<<"calc", a, 0>> : a \in 0..POT_ADC_MAX}

\* raw analog samples read by the telemetry
Amostras ==
    {<<"telemetria", raw, 0>> :
        raw \in ((-MaxFora)..(POT_ADC_MAX + MaxFora)) \cup {-32768, 32767}}

InitFn ==
    /\ pc = "fn"
    /\ Globais
    /\ entrada \in ParesDeLeituras \cup ParesDeRelogio \cup Sorteios \cup Faixas
                  \cup Leituras \cup Amostras
    /\ saida = <<>>

\* faixaPorLeitura on the two readings
aplicaFaixa ==
    /\ pc = "fn"
    /\ entrada[1] = "faixa"
    /\ saida' = <<faixaPorLeitura(entrada[2]), faixaPorLeitura(entrada[3])>>
    /\ pc' = "faixa"
    /\ UNCHANGED <<progVars, entrada>>

\* the due-check of loop() with the clock `decorrido` ms after (before) the deadline
aplicaDue ==
    /\ pc = "fn"
    /\ entrada[1] = "due"
    /\ saida' = Due(AddUL(entrada[2], entrada[3]), entrada[2])
    /\ pc' = "due"
    /\ UNCHANGED <<progVars, entrada>>

\* the choice of minutes of agendaProximoIntervalo
aplicaEscolhe ==
    /\ pc = "fn"
    /\ entrada[1] = "escolhe"
    /\ saida' = escolheMinutos(entrada[2], entrada[3])
    /\ pc' = "escolhe"
    /\ UNCHANGED <<progVars, entrada>>

\* the draw of agendaProximoIntervalo on a given range
aplicaSorteia ==
    /\ pc = "fn"
    /\ entrada[1] = "sorteia"
    /\ saida' = sorteiaMinutos(entrada[2][1], entrada[2][2], entrada[3])
    /\ pc' = "sorteia"
    /\ UNCHANGED <<progVars, entrada>>

\* faixaPorLeitura before and after its correction step
aplicaCalc ==
    /\ pc = "fn"
    /\ entrada[1] = "calc"
    /\ saida' = [calc |-> faixaCalc(entrada[2]), faixa |-> faixaPorLeitura(entrada[2])]
    /\ pc' = "calc"
    /\ UNCHANGED <<progVars, entrada>>

\* the telemetry line of loop() for a raw sample
aplicaTelemetria ==
    /\ pc = "fn"
    /\ entrada[1] = "telemetria"
    /\ saida' = linhaTelemetria(entrada[2])
    /\ pc' = "telemetria"
    /\ UNCHANGED <<progVars, entrada>>

NextFn ==
    \/ aplicaCalc
    \/ aplicaTelemetria
    \/ aplicaSorteia
    \/ aplicaFaixa
    \/ aplicaDue
    \/ aplicaEscolhe

SpecFn == InitFn /\ [][NextFn]_vars

----------------------------------------------------------------------------
(* The blocking sketch liga_e_desliga_random.ino *)

\* liga_e_desliga_random.ino, line 16
BloqRELAY_ATIVO_EM_LOW == FALSE

\* the level written by ligaRele()
ligaRele == IF BloqRELAY_ATIVO_EM_LOW THEN "LOW" ELSE "HIGH"

\* the level written by desligaRele()
desligaRele == IF BloqRELAY_ATIVO_EM_LOW THEN "HIGH" ELSE "LOW"

\* The upper limit of the draw is taken as inclusive.
sorteiaBloqInclusivo(r) == random(3, 9 + 1, r)

\* loop(), lines 42-43: random(3, 9), r being the generator's raw output
sorteiaBloq(r) == random(3, 9, r)

\* loop(), lines 50 and 57: the argument minutos * 60000UL of delay()
delayMs(minutos) == minutos * 60000

\* the longest step by which a delay() in progress is observed
PassoDelay == delayMs(1)

\* no hold has ended yet
NoHold == [ligado |-> FALSE, ms |-> -1]

\* the variables the blocking sketch does not have
bloqResto ==
    <<millis, agora, relayLigado, proximaTrocaMs, hbOn, hbProximaTrocaMs,
      potProximaImpressaoMs, ledRelePin, hbPin, agendaLog, potLog, iter, trocas,
      hbDesde, potDesde, hbGap, potGap, releDesde, disparos>>

InitBloq ==
    /\ pc = "bloq_setup"
    /\ Globais
    /\ entrada = <<0, 0>>
    /\ saida = NoHold

\* setup(): desligaRele()
setupBloq ==
    /\ pc = "bloq_setup"
    /\ relayPin' = desligaRele
    /\ pc' = "bloq_loop"
    /\ UNCHANGED <<bloqResto, entrada, saida, desdeAgora>>

\* loop(), lines 42-50: the two draws, ligaRele(), and the first delay() begins
loopBloqLiga ==
    /\ pc = "bloq_loop"
    /\ \E r1 \in 0..MaxRand, r2 \in 0..MaxRand :
         entrada' = <<sorteiaBloq(r1), sorteiaBloq(r2)>>
    /\ relayPin' = ligaRele
    /\ desdeAgora' = 0
    /\ pc' = "bloq_ligado"
    /\ UNCHANGED <<bloqResto, saida>>

\* milliseconds the delay() in progress was called with
delayPedido ==
    IF pc = "bloq_ligado" THEN delayMs(entrada[1]) ELSE delayMs(entrada[2])

\* time passes inside delay(ms), which has not run for ms milliseconds yet
delayPassa ==
    /\ pc \in {"bloq_ligado", "bloq_desligado"}
    /\ desdeAgora < delayPedido
    /\ desdeAgora' = IF delayPedido - desdeAgora < PassoDelay
                     THEN delayPedido
                     ELSE desdeAgora + PassoDelay
    /\ UNCHANGED <<bloqResto, pc, relayPin, entrada, saida>>

\* loop(), lines 50-57: the first delay() returns, desligaRele(), and the
\* second delay() begins
loopBloqDesliga ==
    /\ pc = "bloq_ligado"
    /\ desdeAgora >= delayPedido
    /\ saida' = [ligado |-> TRUE, ms |-> desdeAgora]
    /\ relayPin' = desligaRele
    /\ desdeAgora' = 0
    /\ pc' = "bloq_desligado"
    /\ UNCHANGED <<bloqResto, entrada>>

\* loop(), lines 57-58: the second delay() returns and loop() ends
loopBloqFim ==
    /\ pc = "bloq_desligado"
    /\ desdeAgora >= delayPedido
    /\ saida' = [ligado |-> FALSE, ms |-> desdeAgora]
    /\ pc' = "bloq_loop"
    /\ UNCHANGED <<bloqResto, relayPin, entrada, desdeAgora>>

NextBloq ==
    \/ setupBloq
    \/ loopBloqLiga
    \/ delayPassa
    \/ loopBloqDesliga
    \/ loopBloqFim

\* the processor keeps executing: a step that can be taken is taken
SpecBloq == InitBloq /\ [][NextBloq]_vars /\ WF_vars(NextBloq)

----------------------------------------------------------------------------
(* Properties *)

relayDevido == pc = "relay" /\ Due(agora, proximaTrocaMs)
hbDevido == pc = "hb" /\ Due(agora, hbProximaTrocaMs)
potDevido == pc = "pot" /\ Due(agora, potProximaImpressaoMs)

\* C1: relayLigado changes only in a step of loop()'s relay due-check that
\* fires, every such step flips it, and the k-th firing applies ON when k is
\* odd and OFF when k is even (ON, OFF, ON, ...).
TeoC1 ==
    [][/\ (relayLigado' # relayLigado => relayDevido)
       /\ (relayDevido => relayLigado' = ~relayLigado /\ trocas' = trocas + 1)
       /\ (trocas' # trocas => relayLigado' = (trocas' % 2 = 1))]_vars

\* three firings applied ON, OFF, ON
WitC1 == trocas = 3 /\ relayLigado

\* C2: with now = deadline + e (mod 2^32) and |e| < 2^31, the due-check is
\* true exactly when e >= 0, whether or not the counter wrapped in between.
TeoC2 == pc = "due" => (saida <=> entrada[3] >= 0)

\* due right after the counter wrapped: now is below the deadline as an
\* unsigned value, and the check says due
WitC2 ==
    /\ pc = "due"
    /\ entrada[3] > 0
    /\ LessUL(AddUL(entrada[2], entrada[3]), entrada[2])
    /\ saida

\* C3: the minutes chosen lie in the range mapped from the reading sampled in
\* the same call, ends included; a draw on a range low = high gives that value.
TeoC3 ==
    /\ pc = "escolhe" =>
          /\ saida.minMin <= saida.minutos
          /\ saida.minutos <= saida.maxMax
    /\ pc = "sorteia" =>
          /\ entrada[2][1] <= saida
          /\ saida <= entrada[2][2]
          /\ (entrada[2][1] = entrada[2][2] => saida = entrada[2][1])

\* the upper end of a mapped range is drawn
WitC3 ==
    /\ pc = "escolhe"
    /\ saida.minMin < saida.maxMax
    /\ saida.minutos = saida.maxMax

\* C4: for readings a <= b in 0..POT_ADC_MAX, low(a) <= low(b),
\* high(a) <= high(b), and high >= low for both.
TeoC4 ==
    pc = "faixa" =>
        /\ saida[1][1] <= saida[2][1]
        /\ saida[1][2] <= saida[2][2]
        /\ saida[1][1] <= saida[1][2]
        /\ saida[2][1] <= saida[2][2]

\* two consecutive readings between which both bounds are mapped
WitC4 ==
    /\ pc = "faixa"
    /\ entrada[3] = entrada[2] + 1
    /\ saida[1][1] < saida[2][1]

\* C5: faixaPorLeitura(r) = (1 + r*9 div 1023, 8 + r*17 div 1023); reading 0
\* gives (1, 8), reading 511 gives (5, 16), reading 1023 gives (10, 25).
TeoC5 ==
    /\ POT_ADC_MAX = 1023
    /\ pc = "faixa" =>
          /\ saida[1] = <<1 + (entrada[2] * 9) \div 1023, 8 + (entrada[2] * 17) \div 1023>>
          /\ (entrada[2] = 0 => saida[1] = <<1, 8>>)
          /\ (entrada[2] = 511 => saida[1] = <<5, 16>>)
          /\ (entrada[3] = 1023 => saida[2] = <<10, 25>>)

WitC5 ==
    /\ pc = "faixa"
    /\ entrada[2] = 511
    /\ entrada[3] = 1023
    /\ saida = <<<<5, 16>>, <<10, 25>>>>

\* C6: a heartbeat firing comes at least hbPeriodoMs of clock time after the
\* previous one (or after setup scheduled it), and a telemetry firing at least
\* potPrintPeriodoMs after the previous one, whatever the jitter of the loop.
TeoC6 ==
    /\ hbGap = -1 \/ hbGap >= hbPeriodoMs
    /\ potGap = -1 \/ potGap >= potPrintPeriodoMs

\* both tasks fired late, one millisecond after their period
WitC6 == hbGap = hbPeriodoMs + 1 /\ potGap = potPrintPeriodoMs + 1

\* C7 as stated: the heartbeat toggles exactly once per hbPeriodoMs, so every
\* toggle comes exactly hbPeriodoMs after the previous one.
CexC7 == hbGap = -1 \/ hbGap = hbPeriodoMs

\* C7 amended: at each heartbeat due-check hbOn toggles exactly when at least
\* hbPeriodoMs of clock time elapsed since the previous toggle (or since setup),
\* whatever the relay state; a late check stretches the period.
TeoC7 ==
    [][pc = "hb" => ((hbOn' = ~hbOn) <=> (hbDesde >= hbPeriodoMs))]_vars

\* a toggle later than the period, the relay being on
WitC7 == hbGap > hbPeriodoMs /\ hbGap < 2 * hbPeriodoMs /\ relayLigado /\ pc = "relay"

\* C8: until the first relay firing the relay is OFF, setup() included, and
\* the first firing applies ON.
TeoC8 ==
    /\ trocas = 0 => ~relayLigado
    /\ (trocas = 0 /\ pc # "boot") => relayPin = (IF RELAY_ATIVO_EM_LOW THEN "HIGH" ELSE "LOW")
    /\ trocas = 1 => relayLigado

\* the first firing happened and applied ON, the log of setup() replaced
WitC8 == trocas = 1 /\ relayLigado /\ agendaLog.proximo = FALSE

\* C9: the heartbeat step leaves the relay and telemetry state alone, the
\* relay step the heartbeat and telemetry state, the telemetry step the relay
\* and heartbeat state; a step whose task is not due changes none of them.
TeoC9 ==
    [][/\ pc = "hb" =>
            /\ UNCHANGED <<relayLigado, relayPin, ledRelePin, proximaTrocaMs,
                           potProximaImpressaoMs, agendaLog, potLog>>
            /\ (~hbDevido => UNCHANGED <<hbOn, hbPin, hbProximaTrocaMs>>)
       /\ pc = "relay" =>
            /\ UNCHANGED <<hbOn, hbPin, hbProximaTrocaMs, potProximaImpressaoMs, potLog>>
            /\ (~relayDevido =>
                  UNCHANGED <<relayLigado, relayPin, ledRelePin, proximaTrocaMs, agendaLog>>)
       /\ pc = "pot" =>
            /\ UNCHANGED <<relayLigado, relayPin, ledRelePin, proximaTrocaMs, agendaLog,
                           hbOn, hbPin, hbProximaTrocaMs>>
            /\ (~potDevido => UNCHANGED <<potProximaImpressaoMs, potLog>>)]_vars

\* all three tasks fired in one iteration
WitC9 ==
    /\ pc = "loop"
    /\ hbDesde = 0
    /\ potDesde = 0
    /\ trocas > 0
    /\ proximaTrocaMs = AddUL(AddUL(agora, desdeAgora), MINUTOS(agendaLog.minutos))
    /\ potLog.maxMax > 0

\* C10: between iterations the relay pin is at its active level iff
\* relayLigado, the state LED is lit iff relayLigado, the heartbeat LED is lit
\* iff hbOn.
TeoC10 ==
    pc = "loop" =>
        /\ (relayPin = (IF RELAY_ATIVO_EM_LOW THEN "LOW" ELSE "HIGH")) <=> relayLigado
        /\ (ledRelePin = (IF LED_RELE_ATIVO_EM_HIGH THEN "HIGH" ELSE "LOW")) <=> relayLigado
        /\ (hbPin = (IF HB_LED_ATIVO_EM_HIGH THEN "HIGH" ELSE "LOW")) <=> hbOn

\* relay on and heartbeat lit at the end of an iteration
WitC10 ==
    /\ pc = "loop"
    /\ relayLigado
    /\ hbOn
    /\ relayPin = "LOW"
    /\ ledRelePin = "HIGH"
    /\ hbPin = "HIGH"

\* C13: for any raw analog sample, below 0 and above POT_ADC_MAX included,
\* the reading the relay scheduling and the telemetry pass to faixaPorLeitura
\* lies in 0..POT_ADC_MAX.
TeoC13 ==
    /\ pc = "escolhe" => saida.leitura \in 0..POT_ADC_MAX
    /\ pc = "telemetria" => saida.leitura \in 0..POT_ADC_MAX

\* a raw sample above the full scale was clamped for the scheduling
WitC13 ==
    /\ pc = "escolhe"
    /\ entrada[2] > POT_ADC_MAX
    /\ saida.leitura = POT_ADC_MAX

\* C20: for every reading in 0..POT_ADC_MAX the interpolations give low in
\* 1..10, high in 8..25 and high - low >= 7 before the correction, and the
\* correction leaves the pair as it is.
TeoC20 ==
    pc = "calc" =>
        /\ saida.calc[1] \in 1..10
        /\ saida.calc[2] \in 8..25
        /\ saida.calc[2] - saida.calc[1] >= 7
        /\ saida.faixa = saida.calc

\* the lower edge of the domain, where high - low is exactly 7
WitC20 ==
    /\ pc = "calc"
    /\ entrada[2] = 0
    /\ saida.calc = <<1, 8>>
    /\ saida.faixa = <<1, 8>>

\* C15 as stated: the deadline a relay firing stores is the sample agora of
\* that iteration plus minutes * 60000.
CexC15 ==
    (pc = "pot" /\ "rele" \in disparos) =>
        proximaTrocaMs = AddUL(agora, agendaLog.minutos * 60000)

\* C15 amended: the deadline a relay firing stores is the value millis()
\* returns inside agendaProximoIntervalo plus minutes * 60000 (mod 2^32); that
\* value is agora plus the time the clock ran since agora was sampled, so the
\* deadline is agora + minutes * 60000 only if the clock did not advance.
TeoC15 ==
    (pc = "pot" /\ "rele" \in disparos) =>
        /\ proximaTrocaMs = AddUL(millis, agendaLog.minutos * 60000)
        /\ millis = AddUL(agora, desdeAgora)
        /\ (desdeAgora = 0 => proximaTrocaMs = AddUL(agora, agendaLog.minutos * 60000))

\* a second firing during which the clock advanced
WitC15 == pc = "pot" /\ "rele" \in disparos /\ desdeAgora > 0 /\ trocas >= 2

\* C16: every relay firing applies the state that the last scheduling line
\* announced as next, the line of setup() included.
TeoC16 == [][relayDevido => relayLigado' = agendaLog.proximo]_vars

\* after the second firing: OFF applied, ON announced
WitC16 == pc = "pot" /\ trocas = 2 /\ ~relayLigado /\ agendaLog.proximo

\* C17: the checks of an iteration run in the order heartbeat, relay,
\* telemetry, each at most once, and when heartbeat and telemetry both fire in
\* an iteration their new deadlines are both counted from its sample agora.
TeoC17 ==
    /\ pc = "hb" => disparos = {}
    /\ pc = "relay" => disparos \subseteq {"hb"}
    /\ pc = "pot" => disparos \subseteq {"hb", "rele"}
    /\ (pc = "loop" /\ {"hb", "pot"} \subseteq disparos) =>
          /\ SubUL(hbProximaTrocaMs, hbPeriodoMs) = agora
          /\ SubUL(potProximaImpressaoMs, potPrintPeriodoMs) = agora

\* the three tasks fired in one iteration during which the clock advanced
WitC17 == pc = "loop" /\ disparos = {"hb", "rele", "pot"} /\ desdeAgora > 0

\* C18: at the end of setup() and of every iteration, the signed difference
\* agora - deadline is negative for the three deadlines.
TeoC18 ==
    pc = "loop" =>
        /\ SubUL(agora, proximaTrocaMs) < 0
        /\ SubUL(agora, hbProximaTrocaMs) < 0
        /\ SubUL(agora, potProximaImpressaoMs) < 0

\* the heartbeat fired two periods or more late, and the iteration that
\* followed at once fired nothing
WitC18 ==
    /\ pc = "loop"
    /\ iter >= 2
    /\ hbGap >= 2 * hbPeriodoMs
    /\ hbDesde = 0
    /\ disparos = {}

\* C19: a relay deadline is stored 60000 to 1500000 ms after the clock value
\* it is computed from, and a relay firing comes at least 60000 ms of clock
\* time after the previous one (or after setup).
TeoC19 ==
    [][/\ (pc = "boot" \/ relayDevido) =>
             /\ SubUL(proximaTrocaMs', millis') >= 60000
             /\ SubUL(proximaTrocaMs', millis') <= 1500000
       /\ relayDevido => releDesde >= 60000]_vars

\* a firing due exactly one minute after the previous firing
WitC19 == relayDevido /\ trocas >= 1 /\ releDesde = 60000

\* C14: in the blocking sketch the relay is ON throughout the first delay of a
\* pass and OFF throughout the second, each hold that ends lasted the drawn
\* number of minutes, a whole number from 3 to 8, and the relay is ON again
\* and again and OFF again and again, forever.
TeoC14 ==
    /\ [](pc = "bloq_ligado" => relayPin = ligaRele /\ entrada[1] \in 3..8)
    /\ [](pc = "bloq_desligado" => relayPin = desligaRele /\ entrada[2] \in 3..8)
    /\ [](pc = "bloq_loop" => relayPin = desligaRele)
    /\ [](pc = "bloq_desligado" => saida.ligado /\ saida.ms = 60000 * entrada[1])
    /\ [](pc = "bloq_loop" /\ saida # NoHold =>
             ~saida.ligado /\ saida.ms = 60000 * entrada[2])
    /\ [](saida # NoHold => saida.ms >= 3 * 60000 /\ saida.ms <= 8 * 60000)
    /\ []<>(pc = "bloq_ligado" /\ relayPin = ligaRele)
    /\ []<>(pc = "bloq_desligado" /\ relayPin = desligaRele)

\* a later pass holds the relay ON for 3 minutes after an OFF hold of 8 minutes
WitC14 ==
    /\ pc = "bloq_ligado"
    /\ relayPin = ligaRele
    /\ saida = [ligado |-> FALSE, ms |-> 8 * 60000]
    /\ entrada[1] = 3
    /\ desdeAgora = 3 * 60000

\* C11: with loop() iterated without end and the clock advancing again and
\* again, the relay due-check, the heartbeat and the telemetry each fire
\* infinitely often, relayLigado is infinitely often ON and infinitely often
\* OFF, and every reachable state has a successor.
TeoC11 ==
    /\ [](ENABLED NextVivo)
    /\ []<>("rele" \in disparos /\ relayLigado)
    /\ []<>("rele" \in disparos /\ ~relayLigado)
    /\ []<>("hb" \in disparos)
    /\ []<>("pot" \in disparos)

\* the relay fires in the iteration in which the clock wraps to a value below
\* the deadline that expired, after an iteration in which it was not due
WitC11 ==
    /\ pc = "pot"
    /\ "rele" \in disparos
    /\ agora >= 0
    /\ agora < 2^20
    /\ agendaLog.minutos = 25
    /\ releDesde = 0
    /\ hbGap = 2^20

\* C12: two runs that sample the same clock values at setup() and at the start
\* of each iteration, whatever each reads from the sensor and draws, agree
\* after every iteration on hbOn, on hbProximaTrocaMs, on
\* potProximaImpressaoMs and on whether the heartbeat and the telemetry fired
\* in it.
TeoC12 ==
    (entrada[2] = 1 /\ pc = "loop" /\ saida.pc = "loop" /\ saida.iter = iter) =>
        /\ agora = saida.agora
        /\ hbOn = saida.hbOn
        /\ hbPin = saida.hbPin
        /\ hbProximaTrocaMs = saida.hbProximaTrocaMs
        /\ potProximaImpressaoMs = saida.potProximaImpressaoMs
        /\ disparos \cap {"hb", "pot"} = saida.disparos \cap {"hb", "pot"}

\* after an iteration in which heartbeat and telemetry fired in both runs, one
\* run has switched its relay ON and the other has not, on different readings
WitC12 ==
    /\ entrada[2] = 1
    /\ pc = "loop"
    /\ saida.pc = "loop"
    /\ saida.iter = iter
    /\ iter >= 2
    /\ {"hb", "pot"} \subseteq disparos
    /\ relayLigado # saida.relayLigado
    /\ trocas # saida.trocas
    /\ agendaLog.leitura # saida.agendaLog.leitura
    /\ proximaTrocaMs # saida.proximaTrocaMs

============================================================================
